---- MODULE Spec2Model ----
(***************************************************************************)
(* lilbig: byte-order conversion of in-memory values.                      *)
(*                                                                         *)
(* The crate is a set of pure functions (ByteOrder, ByteOrdered) and of    *)
(* in-place mutators (FieldsByteOrdered).  The model is a caller that      *)
(* holds one value, `self`, and applies the crate's operations to it, one  *)
(* call per step.  A by-value operation rebinds `self` to what the call    *)
(* returned; a `&mut self` operation mutates `self` in place.  `last` and  *)
(* `prev` record the two most recent calls of the current method chain.    *)
(*                                                                         *)
(* An integer is held as its bit pattern: the tuple of its bytes, byte 1   *)
(* the least significant.  This is the value-level representation          *)
(* (independent of the target), on which `swap_bytes` is defined.          *)
(***************************************************************************)
EXTENDS Integers, Sequences, FiniteSets, TLC

VARIABLES
    target_endian,  \* cfg(target_endian): "little" or "big", fixed per build
    revision,       \* which copy of the crate is built: "src" (src/src) or "lib" (src/lib/src)
    self,           \* the value the caller holds (the receiver of the next call)
    last,           \* the most recent call
    prev,           \* the call before it in the same method chain
    bystander,      \* another value the caller owns, never passed to a call
    iter,           \* the iter_mut() iteration in progress inside swap_field_orders
    chain           \* the order the caller declares `self` to be in, and where it started

vars == <<target_endian, revision, self, last, prev, bystander, iter, chain>>

----------------------------------------------------------------------------
(* Bounds of the exploration.                                              *)

\* Multi-byte inputs are the byte patterns s, s+d, s+2d, ... for d in 0..MaxStride.
MaxStride == 1
\* Arrays and slices have 0..MaxLen elements.
MaxLen == 2
\* Array and slice elements are the integers 0..MaxElem of the element type.
MaxElem == 2
\* Arrays of arrays and arrays of aggregates have 0..MaxOuter elements.
MaxOuter == 2

\* First bytes of the multi-byte input patterns.
SeedBytes == {0, 255}

\* Integers of the doc tests and of the crate's examples: 0x12345678, 0x7cf3a4b1, 23.
ExampleInts == {305419896, 2096342193, 23}

----------------------------------------------------------------------------
(* ByteOrder                                                               *)

Le == "Le"
Be == "Be"
ByteOrder == {Le, Be}

compute_native ==
    CASE target_endian = "little" -> Le
      [] target_endian = "big"    -> Be

lib_NATIVE ==
    CASE target_endian = "little" -> Le
      [] target_endian = "big"    -> Be

opposite(o) ==
    CASE o = Le -> Be
      [] o = Be -> Le

src_NATIVE == compute_native

NATIVE == IF revision = "src" THEN src_NATIVE ELSE lib_NATIVE

\* Only the src revision has NATIVE_OPPOSITE.
NATIVE_OPPOSITE == opposite(src_NATIVE)

\* is_native matching on Le where NATIVE is meant.
is_native_little(o) == o = Le

is_native(o) == o = NATIVE

\* not returning self where self.opposite() is meant.
not_identity(o) == o

not(o) == opposite(o)

----------------------------------------------------------------------------
(* Values                                                                  *)

NopTypes == {"i8", "u8"}
IntTypes == {"i16", "u16", "i32", "u32", "i64", "u64", "i128", "u128", "isize", "usize"}
ScalarTypes == NopTypes \cup IntTypes
FloatTypes == {"f32", "f64"}

\* size_of the type in bytes; isize/usize follow target_pointer_width (16, 32 or 64).
WidthsOf(ty) ==
    CASE ty \in {"i8", "u8"}       -> {1}
      [] ty \in {"i16", "u16"}     -> {2}
      [] ty \in {"i32", "u32"}     -> {4}
      [] ty \in {"i64", "u64"}     -> {8}
      [] ty \in {"i128", "u128"}   -> {16}
      [] ty \in {"isize", "usize"} -> {2, 4, 8}

Unit == [kind |-> "unit", ty |-> "()", data |-> <<>>]
Bool(b) == [kind |-> "bool", ty |-> "bool", data |-> b]
Order(o) == [kind |-> "order", ty |-> "ByteOrder", data |-> o]
Scalar(ty, bytes) == [kind |-> "scalar", ty |-> ty, data |-> bytes]
\* kind is "array" ([T; N]) or "slice" ([T]); ty is the element type T.
Container(kind, ty, elems) == [kind |-> kind, ty |-> ty, data |-> elems]

IsContainer(v) == v.kind \in {"array", "slice"}

\* The aggregates of the crate's examples.
\* struct PersonRecord { name: String, age: u16 }; name is held as its UTF-8 bytes.
PersonRecord(name, age) ==
    [kind |-> "PersonRecord", ty |-> "PersonRecord",
     data |-> [name |-> name, age |-> age]]

\* struct GroupId(pub u32); data[1] is field .0
GroupId(x) == [kind |-> "GroupId", ty |-> "GroupId", data |-> <<x>>]

\* struct AccessPrivilegeFlags(pub u32); data[1] is field .0
AccessPrivilegeFlags(x) ==
    [kind |-> "AccessPrivilegeFlags", ty |-> "AccessPrivilegeFlags", data |-> <<x>>]

MAX_GROUPS == 16

FileInfo(accessed, modified, offset, length, capacity, privileges) ==
    [kind |-> "FileInfo", ty |-> "FileInfo",
     data |-> [accessed_time_stamp |-> accessed,
               modified_time_stamp |-> modified,
               offset |-> offset,
               length |-> length,
               capacity |-> capacity,
               group_access_privileges |-> privileges]]

AggregateKinds == {"PersonRecord", "GroupId", "AccessPrivilegeFlags", "FileInfo"}

\* The value is of a type that implements FieldsByteOrdered.
HasFields(v) == v.kind = "scalar" \/ IsContainer(v) \/ v.kind \in AggregateKinds

\* The w low bytes of the integer n, least significant first (n as the type of width w).
RECURSIVE to_le_bytes(_, _)
to_le_bytes(n, w) ==
    IF w = 0 THEN <<>> ELSE <<n % 256>> \o to_le_bytes(n \div 256, w - 1)

Pattern(w, s, d) == [i \in 1..w |-> (s + d * (i - 1)) % 256]

BytePatterns(w) ==
    {Pattern(w, s, d) : s \in SeedBytes, d \in 0..MaxStride}
    \cup {to_le_bytes(n, w) : n \in ExampleInts}

\* Every value of the 1-byte types.
AllBytes == {<<b>> : b \in 0..255}

ScalarInputs ==
    UNION {UNION {{Scalar(ty, b) : b \in BytePatterns(w)} : w \in WidthsOf(ty)}
           : ty \in ScalarTypes}

ElemInputs(ty, w) == {Scalar(ty, to_le_bytes(n, w)) : n \in 0..MaxElem}

ContainerInputs ==
    UNION {UNION {UNION {UNION {{Container(kind, ty, elems)
                                 : elems \in [1..n -> ElemInputs(ty, w)]}
                                : n \in 0..MaxLen}
                         : w \in WidthsOf(ty)}
                  : ty \in ScalarTypes}
           : kind \in {"array", "slice"}}

OrderInputs == {Order(o) : o \in ByteOrder}

\* "Wolfgang", "Al" and "" in UTF-8.
NameInputs == {<<87, 111, 108, 102, 103, 97, 110, 103>>, <<65, 108>>, <<>>}

PersonRecordInputs ==
    {PersonRecord(name, Scalar("u16", age))
        : name \in NameInputs, age \in BytePatterns(2)}

NewtypeInputs ==
    {GroupId(Scalar("u32", b)) : b \in BytePatterns(4)}
    \cup {AccessPrivilegeFlags(Scalar("u32", b)) : b \in BytePatterns(4)}

\* FileInfo values: time stamps, offset, length and capacity derived from a seed
\* byte, and MAX_GROUPS privilege flags counting up from it.
FileInfoOf(seed) ==
    FileInfo(Scalar("u64", Pattern(8, seed, 1)),
             Scalar("u64", Pattern(8, seed, 3)),
             Scalar("u64", to_le_bytes(4096 * (seed + 1), 8)),
             Scalar("u64", to_le_bytes(305419896, 8)),
             Scalar("u64", to_le_bytes(2096342193, 8)),
             Container("array", "AccessPrivilegeFlags",
                 [g \in 1..MAX_GROUPS |->
                     AccessPrivilegeFlags(Scalar("u32", to_le_bytes(seed + g, 4)))]))

FileInfoInputs == {FileInfoOf(seed) : seed \in SeedBytes}

\* Arrays of u16 used as the elements of arrays of arrays.
InnerInputs ==
    {Container("array", "u16", elems)
        : elems \in {<<>>,
                     <<Scalar("u16", <<1, 0>>)>>,
                     <<Scalar("u16", <<1, 0>>), Scalar("u16", <<2, 1>>)>>}}

\* [[u16; n]; m], &mut [[u16; n]], [FileInfo; m] and &mut [FileInfo], m in 0..MaxOuter.
Depth2Inputs ==
    UNION {UNION {{Container(kind, "[u16; n]", elems) : elems \in [1..m -> InnerInputs]}
                  \cup {Container(kind, "FileInfo", elems)
                           : elems \in [1..m -> FileInfoInputs]}
                  : m \in 0..MaxOuter}
           : kind \in {"array", "slice"}}

\* [[[u16; n]; m]; 1]: one more level around the arrays of arrays of u16.
Depth3Inputs ==
    {Container("array", "[[u16; n]; m]", <<inner>>)
        : inner \in {d \in Depth2Inputs : d.kind = "array" /\ d.ty = "[u16; n]"}}

NestedInputs == Depth2Inputs \cup Depth3Inputs

\* A bit pattern written most significant byte first, as hexadecimal is read.
Bits(msb_first) == [i \in 1..Len(msb_first) |-> msb_first[Len(msb_first) + 1 - i]]

\* f32 patterns: 1.0, -0.0, a quiet NaN with payload 0x1234, a signalling NaN,
\* +infinity, -infinity, the smallest subnormal.
F32Patterns ==
    {Bits(<<63, 128, 0, 0>>), Bits(<<128, 0, 0, 0>>), Bits(<<127, 192, 18, 52>>),
     Bits(<<127, 160, 0, 1>>), Bits(<<127, 128, 0, 0>>), Bits(<<255, 128, 0, 0>>),
     Bits(<<0, 0, 0, 1>>)}

\* f64 patterns: 1.0, a quiet NaN with payload 0xdeadbeef, a signalling NaN,
\* +infinity, the smallest subnormal, a subnormal with every mantissa byte set.
F64Patterns ==
    {Bits(<<63, 240, 0, 0, 0, 0, 0, 0>>), Bits(<<127, 248, 0, 0, 222, 173, 190, 239>>),
     Bits(<<127, 240, 0, 0, 0, 0, 0, 1>>), Bits(<<127, 240, 0, 0, 0, 0, 0, 0>>),
     Bits(<<0, 0, 0, 0, 0, 0, 0, 1>>), Bits(<<0, 15, 1, 2, 3, 4, 5, 6>>)}

FloatInputs ==
    {Scalar("f32", b) : b \in F32Patterns} \cup {Scalar("f64", b) : b \in F64Patterns}

----------------------------------------------------------------------------
(* core_impls: the leaf implementations                                    *)

\* swap_bytes written as rotate_left(8): the bytes move up one place.
rotate_bytes(bytes) ==
    [i \in 1..Len(bytes) |-> bytes[((i + Len(bytes) - 2) % Len(bytes)) + 1]]

\* swap_bytes exchanging only the first and the last byte.
swap_outer_bytes(bytes) ==
    [i \in 1..Len(bytes) |->
        IF i = 1 THEN bytes[Len(bytes)]
        ELSE IF i = Len(bytes) THEN bytes[1] ELSE bytes[i]]

\* {integer}::swap_bytes: reverses the byte order of the integer.
swap_bytes(bytes) == [i \in 1..Len(bytes) |-> bytes[Len(bytes) + 1 - i]]

\* A 1-byte swap that exchanges the two nibbles of the byte (rotate_left(4)).
nop_swapped_nibbles(v) ==
    [v EXCEPT !.data = [i \in 1..Len(@) |-> (@[i] % 16) * 16 + (@[i] \div 16)]]

\* impl_ordered_nop!(i8, u8): ByteOrdered::swapped_order
nop_swapped_order(v) == v

\* impl_ordered_int!(...): ByteOrdered::swapped_order
int_swapped_order(v) == [v EXCEPT !.data = swap_bytes(@)]

\* f32::to_bits / f64::to_bits: the bit pattern as u32 / u64.
to_bits(v) == Scalar(IF v.ty = "f32" THEN "u32" ELSE "u64", v.data)

\* f32::from_bits / f64::from_bits: the float with that bit pattern.
from_bits(ty, bits) == Scalar(ty, bits.data)

\* The pattern is a NaN: exponent all ones, mantissa not zero.
IsNaN(v) ==
    LET w == Len(v.data)
        top == IF w = 4 THEN 128 ELSE 240
    IN /\ v.data[w] % 128 = 127
       /\ v.data[w - 1] >= top
       /\ \/ v.data[w - 1] # top
          \/ \E i \in 1..(w - 2) : v.data[i] # 0

\* The swap done on the float as a number: a NaN comes back as the canonical NaN.
float_swapped_order_canonical_nan(v) ==
    LET r == from_bits(v.ty, [to_bits(v) EXCEPT !.data = swap_bytes(@)])
    IN IF IsNaN(r)
       THEN Scalar(r.ty, [i \in 1..Len(r.data) |->
                IF i = Len(r.data) THEN 127
                ELSE IF i = Len(r.data) - 1
                     THEN (IF Len(r.data) = 4 THEN 192 ELSE 248)
                     ELSE 0])
       ELSE r

\* impl_ordered_float!(f32, f64): ByteOrdered::swapped_order
float_swapped_order(v) ==
    from_bits(v.ty, [to_bits(v) EXCEPT !.data = swap_bytes(@)])

\* impl_ordered_float!(f32, f64): FieldsByteOrdered::swap_field_orders
float_swap_field_orders(v) ==
    from_bits(v.ty, [to_bits(v) EXCEPT !.data = swap_bytes(@)])

\* ByteOrdered::swapped_order, dispatched on the implementing type.
swapped_order(v) ==
    CASE v.ty \in NopTypes -> nop_swapped_order(v)
      [] v.ty \in IntTypes -> int_swapped_order(v)
      [] v.ty \in FloatTypes -> float_swapped_order(v)

\* impl_ordered_nop!(i8, u8): FieldsByteOrdered::swap_field_orders
nop_swap_field_orders(v) == v

\* impl_ordered_int!(...): FieldsByteOrdered::swap_field_orders
int_swap_field_orders(v) == [v EXCEPT !.data = swap_bytes(@)]

\* FieldsByteOrdered::swap_field_orders, dispatched on the implementing type;
\* for [T] and [T; N]: self.iter_mut().for_each(T::swap_field_orders).
RECURSIVE swap_field_orders(_)
RECURSIVE for_each_swap_field_orders(_, _)

\* An implementation that swaps every field of the record, the name included.
person_record_swapping_name(v) ==
    [v EXCEPT !.data.age = swap_field_orders(@),
              !.data.name = [i \in 1..Len(@) |-> @[Len(@) + 1 - i]]]

\* impl FieldsByteOrdered for PersonRecord: self.age.swap_field_orders();
person_record_swap_field_orders(v) ==
    [v EXCEPT !.data.age = swap_field_orders(@)]

\* impl FieldsByteOrdered for GroupId / AccessPrivilegeFlags: self.0.swap_field_orders();
newtype_swap_field_orders(v) ==
    [v EXCEPT !.data[1] = swap_field_orders(@)]

\* An implementation that leaves out the array field.
file_info_omitting_privileges(v) ==
    [v EXCEPT !.data.accessed_time_stamp = swap_field_orders(@),
              !.data.modified_time_stamp = swap_field_orders(@),
              !.data.offset = swap_field_orders(@),
              !.data.length = swap_field_orders(@),
              !.data.capacity = swap_field_orders(@)]

\* impl FieldsByteOrdered for FileInfo: each field's swap_field_orders in turn.
file_info_swap_field_orders(v) ==
    [v EXCEPT !.data.accessed_time_stamp = swap_field_orders(@),
              !.data.modified_time_stamp = swap_field_orders(@),
              !.data.offset = swap_field_orders(@),
              !.data.length = swap_field_orders(@),
              !.data.capacity = swap_field_orders(@),
              !.data.group_access_privileges = swap_field_orders(@)]

\* The iteration written with iter_mut().skip(1): the first element is left out.
for_each_skipping_first(elems, i) ==
    [k \in 1..Len(elems) |->
        IF k = 1 THEN elems[k] ELSE swap_field_orders(elems[k])]

for_each_swap_field_orders(elems, i) ==
    IF i > Len(elems)
    THEN elems
    ELSE for_each_swap_field_orders(
             [elems EXCEPT ![i] = swap_field_orders(@)], i + 1)

swap_field_orders(v) ==
    CASE IsContainer(v) -> [v EXCEPT !.data = for_each_swap_field_orders(@, 1)]
      [] v.kind = "scalar" /\ v.ty \in NopTypes -> nop_swap_field_orders(v)
      [] v.kind = "scalar" /\ v.ty \in IntTypes -> int_swap_field_orders(v)
      [] v.kind = "scalar" /\ v.ty \in FloatTypes -> float_swap_field_orders(v)
      [] v.kind = "PersonRecord" -> person_record_swap_field_orders(v)
      [] v.kind \in {"GroupId", "AccessPrivilegeFlags"} -> newtype_swap_field_orders(v)
      [] v.kind = "FileInfo" -> file_info_swap_field_orders(v)

\* {integer}::to_le and {integer}::to_be, which the doc tests use to write a
\* native integer in a given order: the identity on a target of that order,
\* swap_bytes on the other.
to_le(v) ==
    IF target_endian = "little" THEN v ELSE [v EXCEPT !.data = swap_bytes(@)]

to_be(v) ==
    IF target_endian = "big" THEN v ELSE [v EXCEPT !.data = swap_bytes(@)]

----------------------------------------------------------------------------
(* ByteOrdered: the provided methods                                       *)

\* ordered_ne matching on Le/Be where NATIVE/NATIVE_OPPOSITE are meant.
ordered_ne_as_le(v, current_order) ==
    CASE current_order = Le -> v
      [] current_order = Be -> swapped_order(v)

src_ordered_ne(v, current_order) ==
    CASE current_order = src_NATIVE      -> v
      [] current_order = NATIVE_OPPOSITE -> swapped_order(v)

lib_ordered_ne(v, current_order) ==
    CASE current_order = lib_NATIVE -> v
      [] OTHER                      -> swapped_order(v)

\* ordered_le with the arms of its match exchanged.
ordered_le_arms_exchanged(v, current_order) ==
    CASE current_order = Be -> v
      [] current_order = Le -> swapped_order(v)

src_ordered_le(v, current_order) ==
    CASE current_order = Le -> v
      [] current_order = Be -> swapped_order(v)

\* The wildcard match of ordered_le written on Be: Be is kept, anything else swapped.
lib_ordered_le_on_be(v, current_order) ==
    CASE current_order = Be -> v
      [] OTHER              -> swapped_order(v)

lib_ordered_le(v, current_order) ==
    CASE current_order = Le -> v
      [] OTHER              -> swapped_order(v)

\* ordered_be with the arms of its match exchanged.
ordered_be_arms_exchanged(v, current_order) ==
    CASE current_order = Le -> v
      [] current_order = Be -> swapped_order(v)

src_ordered_be(v, current_order) ==
    CASE current_order = Be -> v
      [] current_order = Le -> swapped_order(v)

lib_ordered_be(v, current_order) ==
    CASE current_order = Be -> v
      [] OTHER              -> swapped_order(v)

ordered_ne(v, current_order) ==
    IF revision = "src" THEN src_ordered_ne(v, current_order)
                        ELSE lib_ordered_ne(v, current_order)

ordered_le(v, current_order) ==
    IF revision = "src" THEN src_ordered_le(v, current_order)
                        ELSE lib_ordered_le(v, current_order)

ordered_be(v, current_order) ==
    IF revision = "src" THEN src_ordered_be(v, current_order)
                        ELSE lib_ordered_be(v, current_order)

\* ordered_as comparing current_order with NATIVE where new_order is meant.
ordered_as_native(v, current_order, new_order) ==
    IF current_order = NATIVE THEN v ELSE swapped_order(v)

\* ordered_as with the branches of its `if` exchanged.
ordered_as_exchanged(v, current_order, new_order) ==
    IF current_order = new_order THEN swapped_order(v) ELSE v

\* Only the src revision has ordered_as.
ordered_as(v, current_order, new_order) ==
    IF current_order = new_order THEN v ELSE swapped_order(v)

----------------------------------------------------------------------------
(* FieldsByteOrdered: the provided methods                                 *)

src_order_fields_ne(v, current_order) ==
    IF current_order # src_NATIVE THEN swap_field_orders(v) ELSE v

lib_order_fields_ne(v, current_order) ==
    IF current_order # lib_NATIVE THEN swap_field_orders(v) ELSE v

src_order_fields_le(v, current_order) ==
    IF current_order # Le THEN swap_field_orders(v) ELSE v

lib_order_fields_le(v, current_order) ==
    IF current_order # Le THEN swap_field_orders(v) ELSE v

src_order_fields_be(v, current_order) ==
    IF current_order # Be THEN swap_field_orders(v) ELSE v

lib_order_fields_be(v, current_order) ==
    IF current_order # Be THEN swap_field_orders(v) ELSE v

order_fields_ne(v, current_order) ==
    IF revision = "src" THEN src_order_fields_ne(v, current_order)
                        ELSE lib_order_fields_ne(v, current_order)

order_fields_le(v, current_order) ==
    IF revision = "src" THEN src_order_fields_le(v, current_order)
                        ELSE lib_order_fields_le(v, current_order)

\* order_fields_be comparing with Le, as order_fields_le does.
order_fields_be_as_le(v, current_order) ==
    IF current_order # Le THEN swap_field_orders(v) ELSE v

order_fields_be(v, current_order) ==
    IF revision = "src" THEN src_order_fields_be(v, current_order)
                        ELSE lib_order_fields_be(v, current_order)

\* order_fields_as ignoring new_order: it converts to little endian.
order_fields_as_to_le(v, current_order, new_order) ==
    IF current_order # Le THEN swap_field_orders(v) ELSE v

\* Only the src revision has order_fields_as.
order_fields_as(v, current_order, new_order) ==
    IF current_order # new_order THEN swap_field_orders(v) ELSE v

----------------------------------------------------------------------------
(* The caller                                                              *)

Call(op, current_order, new_order, before, ret) ==
    [op |-> op, current_order |-> current_order, new_order |-> new_order,
     before |-> before, ret |-> ret]

NoCall == Call("none", "-", "-", Unit, Unit)

\* No iteration is in progress.
NoIter == [active |-> FALSE, pos |-> 0, calls |-> <<>>, before |-> Unit]

\* The caller tracks no declared order.
NoChain == [x0 |-> Unit, o0 |-> "-", declared |-> "-"]

Init ==
    /\ target_endian \in {"little", "big"}
    /\ revision \in {"src", "lib"}
    /\ self \in OrderInputs \cup ScalarInputs \cup ContainerInputs
    /\ last = NoCall
    /\ prev = NoCall
    /\ bystander = Unit
    /\ iter = NoIter
    /\ chain = NoChain

\* `self = self.op(..)`: a by-value call; it extends the method chain.
Returns(op, current_order, new_order, ret) ==
    /\ self' = ret
    /\ last' = Call(op, current_order, new_order, self, ret)
    /\ prev' = last
    /\ UNCHANGED <<target_endian, revision, bystander, iter, chain>>

\* `self.op(..);`: a statement on `&mut self`; it returns () and ends the chain.
Mutates(op, current_order, new_order, after) ==
    /\ self' = after
    /\ last' = Call(op, current_order, new_order, self, Unit)
    /\ prev' = NoCall
    /\ UNCHANGED <<target_endian, revision, bystander, iter, chain>>

Opposite ==
    /\ self.kind = "order"
    /\ Returns("opposite", "-", "-", Order(opposite(self.data)))

Not ==
    /\ self.kind = "order"
    /\ Returns("not", "-", "-", Order(not(self.data)))

\* `self.is_native()`: ByteOrder is Copy, the caller keeps `self`.
IsNative ==
    /\ self.kind = "order"
    /\ last' = Call("is_native", "-", "-", self, Bool(is_native(self.data)))
    /\ prev' = last
    /\ UNCHANGED <<target_endian, revision, self, bystander, iter, chain>>

SwappedOrder ==
    /\ self.kind = "scalar"
    /\ Returns("swapped_order", "-", "-", swapped_order(self))

OrderedNe ==
    /\ self.kind = "scalar"
    /\ \E current_order \in ByteOrder :
         Returns("ordered_ne", current_order, "-", ordered_ne(self, current_order))

OrderedLe ==
    /\ self.kind = "scalar"
    /\ \E current_order \in ByteOrder :
         Returns("ordered_le", current_order, "-", ordered_le(self, current_order))

OrderedBe ==
    /\ self.kind = "scalar"
    /\ \E current_order \in ByteOrder :
         Returns("ordered_be", current_order, "-", ordered_be(self, current_order))

OrderedAs ==
    /\ self.kind = "scalar"
    /\ revision = "src"
    /\ \E current_order \in ByteOrder, new_order \in ByteOrder :
         Returns("ordered_as", current_order, new_order,
                 ordered_as(self, current_order, new_order))

SwapFieldOrders ==
    /\ HasFields(self)
    /\ Mutates("swap_field_orders", "-", "-", swap_field_orders(self))

OrderFieldsNe ==
    /\ HasFields(self)
    /\ \E current_order \in ByteOrder :
         Mutates("order_fields_ne", current_order, "-",
                 order_fields_ne(self, current_order))

OrderFieldsLe ==
    /\ HasFields(self)
    /\ \E current_order \in ByteOrder :
         Mutates("order_fields_le", current_order, "-",
                 order_fields_le(self, current_order))

OrderFieldsBe ==
    /\ HasFields(self)
    /\ \E current_order \in ByteOrder :
         Mutates("order_fields_be", current_order, "-",
                 order_fields_be(self, current_order))

OrderFieldsAs ==
    /\ HasFields(self)
    /\ revision = "src"
    /\ \E current_order \in ByteOrder, new_order \in ByteOrder :
         Mutates("order_fields_as", current_order, new_order,
                 order_fields_as(self, current_order, new_order))

Next ==
    \/ Opposite
    \/ Not
    \/ IsNative
    \/ SwappedOrder
    \/ OrderedNe
    \/ OrderedLe
    \/ OrderedBe
    \/ OrderedAs
    \/ SwapFieldOrders
    \/ OrderFieldsNe
    \/ OrderFieldsLe
    \/ OrderFieldsBe
    \/ OrderFieldsAs

Spec == Init /\ [][Next]_vars

\* The 1-byte types exhaustively: each of the 256 values of i8 and of u8 is the
\* receiver of one call of each scalar and field operation.
InitBytes ==
    /\ target_endian \in {"little", "big"}
    /\ revision \in {"src", "lib"}
    /\ self \in {Scalar(ty, b) : ty \in NopTypes, b \in AllBytes}
    /\ last = NoCall
    /\ prev = NoCall
    /\ bystander = Unit
    /\ iter = NoIter
    /\ chain = NoChain

NextBytes ==
    /\ last = NoCall
    /\ \/ SwappedOrder
       \/ OrderedNe
       \/ OrderedLe
       \/ OrderedBe
       \/ OrderedAs
       \/ SwapFieldOrders
       \/ OrderFieldsNe
       \/ OrderFieldsLe
       \/ OrderFieldsBe
       \/ OrderFieldsAs

SpecBytes == InitBytes /\ [][NextBytes]_vars

\* The floating point types: each sample bit pattern of f32 and f64 is the
\* receiver of chains of scalar calls and of field calls.
InitFloat ==
    /\ target_endian \in {"little", "big"}
    /\ revision \in {"src", "lib"}
    /\ self \in FloatInputs
    /\ last = NoCall
    /\ prev = NoCall
    /\ bystander = Unit
    /\ iter = NoIter
    /\ chain = NoChain

NextFloat ==
    \/ SwappedOrder
    \/ OrderedNe
    \/ OrderedLe
    \/ OrderedBe
    \/ OrderedAs
    \/ SwapFieldOrders
    \/ OrderFieldsNe
    \/ OrderFieldsLe
    \/ OrderFieldsBe
    \/ OrderFieldsAs

SpecFloat == InitFloat /\ [][NextFloat]_vars

\* User aggregates and nested containers: the receiver of field calls, while
\* the caller owns a second value.
InitAggregate ==
    /\ target_endian \in {"little", "big"}
    /\ revision \in {"src", "lib"}
    /\ self \in PersonRecordInputs \cup NewtypeInputs \cup FileInfoInputs \cup NestedInputs
    /\ last = NoCall
    /\ prev = NoCall
    /\ bystander \in {PersonRecord(<<65, 108>>, Scalar("u16", <<23, 0>>)),
                       Scalar("u32", to_le_bytes(305419896, 4))}
    /\ iter = NoIter
    /\ chain = NoChain

NextAggregate ==
    \/ SwapFieldOrders
    \/ OrderFieldsNe
    \/ OrderFieldsLe
    \/ OrderFieldsBe
    \/ OrderFieldsAs

SpecAggregate == InitAggregate /\ [][NextAggregate]_vars

----------------------------------------------------------------------------
(* swap_field_orders of [T] and [T; N], one element per step                *)

\* The iteration written with iter_mut().rev(): the elements come last to first.
iter_next_back(pos, len) == IF pos < len THEN len - 1 - pos ELSE -1

\* IterMut::next after pos elements were yielded: the index of the element it
\* yields (0 for the first), or -1 for None.
iter_next(pos, len) == IF pos < len THEN pos ELSE -1

\* swap_field_orders is entered: self.iter_mut()
IterMut ==
    /\ IsContainer(self)
    /\ ~iter.active
    /\ iter' = [active |-> TRUE, pos |-> 0, calls |-> <<>>, before |-> self]
    /\ UNCHANGED <<target_endian, revision, self, last, prev, bystander, chain>>

\* for_each takes the next element and calls T::swap_field_orders on it.
ForEachNext ==
    /\ iter.active
    /\ iter_next(iter.pos, Len(self.data)) # -1
    /\ LET k == iter_next(iter.pos, Len(self.data))
       IN /\ self' = [self EXCEPT !.data[k + 1] = swap_field_orders(@)]
          /\ iter' = [iter EXCEPT !.pos = @ + 1, !.calls = Append(@, k)]
    /\ UNCHANGED <<target_endian, revision, last, prev, bystander, chain>>

\* next() is None: for_each and swap_field_orders return.
ForEachDone ==
    /\ iter.active
    /\ iter_next(iter.pos, Len(self.data)) = -1
    /\ iter' = [iter EXCEPT !.active = FALSE]
    /\ last' = Call("swap_field_orders", "-", "-", iter.before, Unit)
    /\ prev' = NoCall
    /\ UNCHANGED <<target_endian, revision, self, bystander, chain>>

InitIter ==
    /\ target_endian \in {"little", "big"}
    /\ revision \in {"src", "lib"}
    /\ self \in ContainerInputs \cup NestedInputs
    /\ last = NoCall
    /\ prev = NoCall
    /\ bystander = Unit
    /\ iter = NoIter
    /\ chain = NoChain

NextIter ==
    \/ IterMut
    \/ ForEachNext
    \/ ForEachDone

SpecIter == InitIter /\ [][NextIter]_vars

----------------------------------------------------------------------------
(* A caller that tracks the order its value is declared to be in           *)

\* `x = x.ordered_as(declared, new_order)`: the caller passes the order it
\* holds the value in and from then on holds it in new_order.
ChainOrderedAs ==
    /\ self.kind = "scalar"
    /\ \E new_order \in ByteOrder :
         /\ self' = ordered_as(self, chain.declared, new_order)
         /\ last' = Call("ordered_as", chain.declared, new_order, self,
                         ordered_as(self, chain.declared, new_order))
         /\ chain' = [chain EXCEPT !.declared = new_order]
    /\ prev' = last
    /\ UNCHANGED <<target_endian, revision, bystander, iter>>

\* `x.order_fields_as(declared, new_order);`
ChainOrderFieldsAs ==
    /\ HasFields(self)
    /\ \E new_order \in ByteOrder :
         /\ self' = order_fields_as(self, chain.declared, new_order)
         /\ last' = Call("order_fields_as", chain.declared, new_order, self, Unit)
         /\ chain' = [chain EXCEPT !.declared = new_order]
    /\ prev' = last
    /\ UNCHANGED <<target_endian, revision, bystander, iter>>

\* x0 is a scalar or an array of scalars, declared to be in order o0.
InitChain ==
    /\ target_endian \in {"little", "big"}
    /\ revision = "src"
    /\ self \in ScalarInputs \cup ContainerInputs
    /\ last = NoCall
    /\ prev = NoCall
    /\ bystander = Unit
    /\ iter = NoIter
    /\ \E o0 \in ByteOrder : chain = [x0 |-> self, o0 |-> o0, declared |-> o0]

NextChain ==
    \/ ChainOrderedAs
    \/ ChainOrderFieldsAs

SpecChain == InitChain /\ [][NextChain]_vars

----------------------------------------------------------------------------
(* Properties                                                              *)

\* The order cfg(target_endian) names.
TargetOrder == IF target_endian = "little" THEN Le ELSE Be

\* The byte of significance i (0 the least significant) of the scalar v.
ByteAt(v, i) == v.data[i + 1]
WidthOf(v) == Len(v.data)

\* C1: swapped_order is an involution on every integer type: a value swapped
\* twice in a row is the value the first call received.
C1_Involution ==
    (prev.op = "swapped_order" /\ last.op = "swapped_order")
        => last.ret = prev.before

C1_Witness ==
    /\ prev.op = "swapped_order" /\ last.op = "swapped_order"
    /\ prev.before.ty = "u128"
    /\ prev.ret # prev.before
    /\ last.ret = prev.before

\* C2: ordered_as returns its receiver when current_order = new_order and the
\* byte-swapped receiver otherwise.
C2_SwapIffMismatch ==
    last.op = "ordered_as" =>
        /\ last.current_order = last.new_order => last.ret = last.before
        /\ last.current_order # last.new_order
               => /\ last.ret.ty = last.before.ty
                  /\ last.ret.data =
                        IF last.before.ty \in NopTypes
                        THEN last.before.data
                        ELSE [i \in 1..WidthOf(last.before) |->
                                 ByteAt(last.before, WidthOf(last.before) - i)]

C2_Witness ==
    /\ last.op = "ordered_as"
    /\ last.current_order = Be /\ last.new_order = Le
    /\ target_endian = "big"
    /\ last.ret # last.before

\* C3: ordered_ne returns its receiver when current_order is the target's
\* native order and the byte-swapped receiver otherwise, on little-endian and
\* on big-endian targets, in both revisions; on a little-endian target
\* 0x12345678u32 declared Le stays 0x12345678 and declared Be is 0x78563412.
C3_OrderedNe ==
    last.op = "ordered_ne" =>
        /\ last.current_order = TargetOrder => last.ret = last.before
        /\ last.current_order # TargetOrder
               => /\ last.ret.ty = last.before.ty
                  /\ last.ret.data =
                        IF last.before.ty \in NopTypes
                        THEN last.before.data
                        ELSE [i \in 1..WidthOf(last.before) |->
                                 ByteAt(last.before, WidthOf(last.before) - i)]
        /\ (/\ target_endian = "little"
            /\ last.before = Scalar("u32", to_le_bytes(305419896, 4)))
               => last.ret.data =
                     IF last.current_order = Le
                     THEN to_le_bytes(305419896, 4)
                     ELSE to_le_bytes(2018915346, 4)

C3_Witness ==
    /\ last.op = "ordered_ne"
    /\ target_endian = "little"
    /\ last.current_order = Be
    /\ last.before = Scalar("u32", to_le_bytes(305419896, 4))
    /\ last.ret = Scalar("u32", to_le_bytes(2018915346, 4))

\* C4: ordered_le returns its receiver when current_order = Le and the
\* byte-swapped receiver otherwise; ordered_be returns its receiver when
\* current_order = Be and the byte-swapped receiver otherwise; on either target.
C4_OrderedLeBe ==
    LET swapped(v) ==
            IF v.ty \in NopTypes THEN v
            ELSE Scalar(v.ty, [i \in 1..WidthOf(v) |-> ByteAt(v, WidthOf(v) - i)])
    IN /\ last.op = "ordered_le" =>
              last.ret = IF last.current_order = Le
                         THEN last.before ELSE swapped(last.before)
       /\ last.op = "ordered_be" =>
              last.ret = IF last.current_order = Be
                         THEN last.before ELSE swapped(last.before)

C4_Witness ==
    /\ prev.op = "ordered_le" /\ prev.current_order = Be
    /\ last.op = "ordered_be" /\ last.current_order = Be
    /\ target_endian = "big"
    /\ prev.ret # prev.before
    /\ last.ret = last.before

\* C5: on a multi-byte integer of w bytes swapped_order is the full byte
\* reversal: byte i of the result is byte w-1-i of the receiver, for every i
\* in 0..w-1, and the width is kept; 0x12345678u32 yields 0x78563412.
C5_ByteReversal ==
    (last.op = "swapped_order" /\ last.before.ty \in IntTypes) =>
        /\ last.ret.kind = "scalar"
        /\ last.ret.ty = last.before.ty
        /\ WidthOf(last.ret) = WidthOf(last.before)
        /\ \A i \in 0..(WidthOf(last.before) - 1) :
               ByteAt(last.ret, i) = ByteAt(last.before, WidthOf(last.before) - 1 - i)
        /\ last.before = Scalar("u32", to_le_bytes(305419896, 4))
               => last.ret = Scalar("u32", to_le_bytes(2018915346, 4))

C5_Witness ==
    /\ last.op = "swapped_order"
    /\ last.before.ty = "i128"
    /\ WidthOf(last.before) = 16
    /\ \A i \in 0..15 : \A j \in 0..15 :
           i # j => ByteAt(last.before, i) # ByteAt(last.before, j)
    /\ ByteAt(last.ret, 0) = ByteAt(last.before, 15)

\* C6: on the 1-byte types i8 and u8 every operation is the identity, for
\* every one of the 256 values and every order argument: swapped_order and the
\* ordered_* calls return their receiver, swap_field_orders and the
\* order_fields_* calls leave it unchanged.
C6_SingleByteIdentity ==
    (last.op # "none" /\ last.before.kind = "scalar" /\ last.before.ty \in NopTypes) =>
        /\ self = last.before
        /\ last.op \in {"swapped_order", "ordered_ne", "ordered_le",
                        "ordered_be", "ordered_as"} => last.ret = last.before

C6_Witness ==
    /\ last.op = "swapped_order"
    /\ last.before = Scalar("i8", <<165>>)
    /\ last.ret = Scalar("i8", <<165>>)

\* C7: ordered_le(ordered_be(v, Le), Be) = v for every scalar v.
C7_RoundTrip ==
    (/\ prev.op = "ordered_be" /\ prev.current_order = Le
     /\ last.op = "ordered_le" /\ last.current_order = Be)
        => last.ret = prev.before

C7_Witness ==
    /\ prev.op = "ordered_be" /\ prev.current_order = Le
    /\ last.op = "ordered_le" /\ last.current_order = Be
    /\ prev.before = Scalar("u32", to_le_bytes(2096342193, 4))
    /\ prev.ret # prev.before
    /\ last.ret = prev.before

\* C8: swap_field_orders on an array or slice of n >= 0 elements keeps the
\* length and puts at every index the swap of the old element at that index
\* (for scalar elements its byte reversal, nothing for 1-byte elements);
\* [0x0001u16, 0x0002u16] becomes [0x0100u16, 0x0200u16].
C8_ElementWise ==
    LET swapped(v) ==
            IF v.ty \in NopTypes THEN v
            ELSE Scalar(v.ty, [i \in 1..WidthOf(v) |-> ByteAt(v, WidthOf(v) - i)])
    IN (last.op = "swap_field_orders" /\ IsContainer(last.before)) =>
           /\ self.kind = last.before.kind
           /\ self.ty = last.before.ty
           /\ Len(self.data) = Len(last.before.data)
           /\ \A i \in 1..Len(last.before.data) :
                  self.data[i] = swapped(last.before.data[i])
           /\ last.before.data = <<Scalar("u16", <<1, 0>>), Scalar("u16", <<2, 0>>)>>
                  => self.data = <<Scalar("u16", <<0, 1>>), Scalar("u16", <<0, 2>>)>>

C8_Witness ==
    /\ last.op = "swap_field_orders"
    /\ last.before =
           Container("array", "u16", <<Scalar("u16", <<1, 0>>), Scalar("u16", <<2, 0>>)>>)
    /\ self =
           Container("array", "u16", <<Scalar("u16", <<0, 1>>), Scalar("u16", <<0, 2>>)>>)

\* C9: order_fields_ne, order_fields_le, order_fields_be and order_fields_as
\* leave the receiver as one swap_field_orders leaves it when current_order
\* differs from the target order (native, Le, Be, new_order), and leave it
\* unchanged when current_order is the target order.
C9_OrderFields ==
    LET expected(target) ==
            IF last.current_order # target
            THEN swap_field_orders(last.before)
            ELSE last.before
    IN /\ last.op = "order_fields_ne" => self = expected(TargetOrder)
       /\ last.op = "order_fields_le" => self = expected(Le)
       /\ last.op = "order_fields_be" => self = expected(Be)
       /\ last.op = "order_fields_as" => self = expected(last.new_order)

C9_Witness ==
    /\ last.op = "order_fields_be"
    /\ last.current_order = Le
    /\ last.before.kind = "slice"
    /\ Len(last.before.data) = 2
    /\ self = swap_field_orders(last.before)
    /\ self # last.before
    /\ swap_field_orders(self) = last.before

\* C10: opposite maps Le to Be and Be to Le, so it never returns its argument;
\* applied twice it returns its argument; !x returns what opposite(x) returns.
C10_Opposite ==
    /\ last.op \in {"opposite", "not"} =>
           /\ last.before.data = Le => last.ret.data = Be
           /\ last.before.data = Be => last.ret.data = Le
           /\ last.ret.data # last.before.data
           /\ last.ret.data \in ByteOrder
    /\ (prev.op = "opposite" /\ last.op = "opposite") => last.ret = prev.before
    /\ last.op = "not" => last.ret.data = opposite(last.before.data)

C10_Witness ==
    /\ prev.op = "opposite" /\ last.op = "opposite"
    /\ prev.before = Order(Be)
    /\ prev.ret = Order(Le)
    /\ last.ret = Order(Be)

\* C11: is_native(x) holds exactly when x is the target's order, on either
\* target: exactly one of Le and Be is native, NATIVE is, NATIVE_OPPOSITE is
\* not and is the other order.
C11_IsNative ==
    /\ NATIVE = TargetOrder
    /\ Cardinality({o \in ByteOrder : is_native(o)}) = 1
    /\ revision = "src" =>
           /\ NATIVE_OPPOSITE \in ByteOrder \ {TargetOrder}
           /\ ~is_native(NATIVE_OPPOSITE)
    /\ last.op = "is_native" =>
           /\ last.ret = Bool(last.before.data = TargetOrder)
           /\ last.before.data = NATIVE => last.ret = Bool(TRUE)
           /\ (revision = "src" /\ last.before.data = NATIVE_OPPOSITE)
                  => last.ret = Bool(FALSE)
           /\ self = last.before

C11_Witness ==
    /\ target_endian = "big"
    /\ prev.op = "is_native" /\ prev.before = Order(Le) /\ prev.ret = Bool(FALSE)
    /\ last.op = "is_native" /\ last.before = Order(Le)

\* The native integer n written in the order o: n.to_le() or n.to_be().
enc(n, o) ==
    CASE o = Le -> to_le(n)
      [] o = Be -> to_be(n)

\* C12: with n the native integer whose encoding in order c is the receiver,
\* ordered_as(enc(n, c), c, t) = enc(n, t), ordered_ne(enc(n, c), c) = n,
\* ordered_le(enc(n, c), c) = n.to_le() and ordered_be(enc(n, c), c) = n.to_be(),
\* on little-endian and on big-endian targets.
C12_DocTests ==
    LET c == last.current_order
        n == enc(last.before, c)
    IN last.op \in {"ordered_as", "ordered_ne", "ordered_le", "ordered_be"} =>
           /\ enc(n, c) = last.before
           /\ last.op = "ordered_as" => last.ret = enc(n, last.new_order)
           /\ last.op = "ordered_ne" => last.ret = n
           /\ last.op = "ordered_le" => last.ret = to_le(n)
           /\ last.op = "ordered_be" => last.ret = to_be(n)

C12_Witness ==
    LET NE_N == Scalar("u32", to_le_bytes(2096342193, 4))
    IN /\ target_endian = "big"
       /\ last.op = "ordered_as"
       /\ last.current_order = Le /\ last.new_order = Be
       /\ last.before = to_le(NE_N)
       /\ last.before # NE_N
       /\ last.ret = NE_N

\* C13: on f32 and f64 swapped_order acts on the bit pattern: the result's bits
\* are the byte reversal of the receiver's bits, and two swaps in a row return
\* the exact bit pattern, NaN payloads, infinities and subnormals included.
C13_FloatBits ==
    /\ (last.op = "swapped_order" /\ last.before.ty \in FloatTypes) =>
           /\ last.ret.kind = "scalar"
           /\ last.ret.ty = last.before.ty
           /\ WidthOf(last.ret) = WidthOf(last.before)
           /\ \A i \in 0..(WidthOf(last.before) - 1) :
                  ByteAt(last.ret, i) = ByteAt(last.before, WidthOf(last.before) - 1 - i)
    /\ (/\ prev.op = "swapped_order" /\ last.op = "swapped_order"
        /\ prev.before.ty \in FloatTypes)
           => last.ret = prev.before

C13_Witness ==
    /\ prev.op = "swapped_order" /\ last.op = "swapped_order"
    /\ prev.before = Scalar("f64", Bits(<<127, 248, 0, 0, 222, 173, 190, 239>>))
    /\ IsNaN(prev.before)
    /\ prev.ret = Scalar("f64", Bits(<<239, 190, 173, 222, 0, 0, 248, 127>>))
    /\ last.ret = prev.before

\* C14: swap_field_orders on a PersonRecord, whose implementation calls
\* swap_field_orders on age alone, byte-swaps age, leaves name as it was, and
\* changes nothing but the receiver (AGE = 23 becomes 23.swap_bytes(), NAME stays).
C14_PersonRecord ==
    [][(last'.op = "swap_field_orders" /\ self.kind = "PersonRecord") =>
          /\ self'.kind = "PersonRecord"
          /\ self'.data.name = self.data.name
          /\ self'.data.age = Scalar("u16", <<ByteAt(self.data.age, 1),
                                              ByteAt(self.data.age, 0)>>)
          /\ bystander' = bystander
          /\ target_endian' = target_endian
          /\ revision' = revision]_vars

C14_Witness ==
    /\ last.op = "swap_field_orders"
    /\ last.before = PersonRecord(<<87, 111, 108, 102, 103, 97, 110, 103>>,
                                  Scalar("u16", <<23, 0>>))
    /\ self = PersonRecord(<<87, 111, 108, 102, 103, 97, 110, 103>>,
                           Scalar("u16", <<0, 23>>))
    /\ bystander = Scalar("u32", to_le_bytes(305419896, 4))

\* The leaf scalars of a value, in field and index order.
RECURSIVE Leaves(_)
RECURSIVE LeavesOfElems(_, _)
LeavesOfElems(elems, i) ==
    IF i > Len(elems) THEN <<>> ELSE Leaves(elems[i]) \o LeavesOfElems(elems, i + 1)

Leaves(v) ==
    CASE v.kind = "scalar" -> <<v>>
      [] IsContainer(v) -> LeavesOfElems(v.data, 1)
      [] v.kind = "PersonRecord" -> Leaves(v.data.age)
      [] v.kind \in {"GroupId", "AccessPrivilegeFlags"} -> Leaves(v.data[1])
      [] v.kind = "FileInfo" ->
            Leaves(v.data.accessed_time_stamp) \o Leaves(v.data.modified_time_stamp)
            \o Leaves(v.data.offset) \o Leaves(v.data.length)
            \o Leaves(v.data.capacity) \o Leaves(v.data.group_access_privileges)

\* The value with the bytes of every leaf scalar cleared: its shape.
RECURSIVE Skeleton(_)
Skeleton(v) ==
    CASE v.kind = "scalar" -> Scalar(v.ty, [i \in 1..Len(v.data) |-> 0])
      [] IsContainer(v) ->
            Container(v.kind, v.ty, [i \in 1..Len(v.data) |-> Skeleton(v.data[i])])
      [] v.kind = "PersonRecord" -> PersonRecord(v.data.name, Skeleton(v.data.age))
      [] v.kind \in {"GroupId", "AccessPrivilegeFlags"} ->
            [v EXCEPT !.data = <<Skeleton(v.data[1])>>]
      [] v.kind = "FileInfo" ->
            FileInfo(Skeleton(v.data.accessed_time_stamp),
                     Skeleton(v.data.modified_time_stamp),
                     Skeleton(v.data.offset), Skeleton(v.data.length),
                     Skeleton(v.data.capacity),
                     Skeleton(v.data.group_access_privileges))

\* C16: one swap_field_orders on a nested value (arrays of arrays, aggregates,
\* arrays of aggregates that hold arrays) keeps its shape and byte-swaps every
\* leaf scalar exactly once: each leaf of the result is the byte reversal of
\* the leaf at the same place before the call.
C16_WholeGraph ==
    (last.op = "swap_field_orders" /\ last.before.kind # "scalar") =>
        /\ Skeleton(self) = Skeleton(last.before)
        /\ Len(Leaves(self)) = Len(Leaves(last.before))
        /\ \A k \in 1..Len(Leaves(last.before)) :
               LET old == Leaves(last.before)[k]
                   new == Leaves(self)[k]
               IN /\ new.ty = old.ty
                  /\ new.data = IF old.ty \in NopTypes
                                THEN old.data
                                ELSE [i \in 1..WidthOf(old) |->
                                         ByteAt(old, WidthOf(old) - i)]

C16_Witness ==
    LET a == Scalar("u16", <<1, 0>>)
        b == Scalar("u16", <<2, 1>>)
        as == Scalar("u16", <<0, 1>>)
        bs == Scalar("u16", <<1, 2>>)
    IN /\ last.op = "swap_field_orders"
       /\ last.before =
              Container("array", "[[u16; n]; m]",
                  <<Container("array", "[u16; n]",
                        <<Container("array", "u16", <<a, b>>),
                          Container("array", "u16", <<a>>)>>)>>)
       /\ self =
              Container("array", "[[u16; n]; m]",
                  <<Container("array", "[u16; n]",
                        <<Container("array", "u16", <<as, bs>>),
                          Container("array", "u16", <<as>>)>>)>>)

\* C15: swap_field_orders on a slice or array of n elements calls the
\* element's swap_field_orders on the elements 0, 1, ..., n-1 in that order,
\* each once, and returns after exactly n calls (none for an empty slice).
C15_IndexOrder ==
    LET n == Len(iter.before.data)
    IN /\ iter.active =>
              /\ iter.pos <= n
              /\ iter.calls = [k \in 1..iter.pos |-> k - 1]
              /\ Len(self.data) = n
              /\ \A i \in 1..n :
                     self.data[i] = IF i <= iter.pos
                                    THEN swap_field_orders(iter.before.data[i])
                                    ELSE iter.before.data[i]
              /\ iter.pos < n => ENABLED ForEachNext /\ ~ENABLED ForEachDone
              /\ iter.pos = n => ENABLED ForEachDone /\ ~ENABLED ForEachNext
       /\ (~iter.active /\ last.op = "swap_field_orders") =>
              /\ last.before = iter.before
              /\ iter.calls = [k \in 1..n |-> k - 1]
              /\ Len(self.data) = n
              /\ \A i \in 1..n : self.data[i] = swap_field_orders(iter.before.data[i])

C15_Witness ==
    /\ ~iter.active
    /\ last.op = "swap_field_orders"
    /\ last.before.kind = "slice"
    /\ last.before.ty = "u32"
    /\ iter.calls = <<0, 1>>
    /\ self.data[1] # last.before.data[1]
    /\ self.data[2] # last.before.data[2]

\* C17: the two revisions agree: whichever revision made the call, what
\* ordered_ne, ordered_le and ordered_be returned is what the wildcard match
\* (src/lib/src), the two-arm match (src/src) and ordered_as with the target
\* order NATIVE, Le, Be return for the same receiver and current_order; and
\* order_fields_ne, order_fields_le and order_fields_be of both revisions leave
\* the receiver in the same state.
C17_RevisionsAgree ==
    LET v == last.before
        c == last.current_order
    IN /\ last.op = "ordered_ne" =>
              /\ last.ret = src_ordered_ne(v, c)
              /\ last.ret = lib_ordered_ne(v, c)
              /\ last.ret = ordered_as(v, c, src_NATIVE)
              /\ last.ret = ordered_as(v, c, lib_NATIVE)
       /\ last.op = "ordered_le" =>
              /\ last.ret = src_ordered_le(v, c)
              /\ last.ret = lib_ordered_le(v, c)
              /\ last.ret = ordered_as(v, c, Le)
       /\ last.op = "ordered_be" =>
              /\ last.ret = src_ordered_be(v, c)
              /\ last.ret = lib_ordered_be(v, c)
              /\ last.ret = ordered_as(v, c, Be)
       /\ last.op = "order_fields_ne" =>
              self = src_order_fields_ne(v, c) /\ self = lib_order_fields_ne(v, c)
       /\ last.op = "order_fields_le" =>
              self = src_order_fields_le(v, c) /\ self = lib_order_fields_le(v, c)
       /\ last.op = "order_fields_be" =>
              self = src_order_fields_be(v, c) /\ self = lib_order_fields_be(v, c)

C17_Witness ==
    /\ revision = "lib"
    /\ prev.op = "ordered_ne" /\ prev.current_order # TargetOrder
    /\ prev.ret # prev.before
    /\ last.op = "ordered_le" /\ last.current_order = Be
    /\ last.ret = src_ordered_le(last.before, Be)
    /\ last.ret # last.before

\* The bytes of a scalar in the opposite order.
Reversed(x) ==
    [x EXCEPT !.data = [j \in 1..Len(x.data) |-> x.data[Len(x.data) + 1 - j]]]

\* Every scalar of v, v itself or each element of the array v, byte-reversed.
FullySwapped(v) ==
    IF IsContainer(v)
    THEN [v EXCEPT !.data = [i \in 1..Len(v.data) |-> Reversed(v.data[i])]]
    ELSE Reversed(v)

\* C18: along any sequence of ordered_as / order_fields_as calls in which each
\* call's current_order is the order the previous call declared, the value is
\* x0 while the declared order is o0 and the fully swapped x0 otherwise; two
\* consecutive conversions a->b->c leave what the single conversion a->c
\* leaves; and a sequence that is back at o0 has restored x0.
C18_DeclaredOrder ==
    /\ chain.declared \in ByteOrder
    /\ self = IF chain.declared = chain.o0 THEN chain.x0 ELSE FullySwapped(chain.x0)
    /\ last.op # "none" => last.new_order = chain.declared
    /\ prev.op # "none" =>
           /\ last.current_order = prev.new_order
           /\ self = order_fields_as(prev.before, prev.current_order, last.new_order)
           /\ self.kind = "scalar" =>
                  self = ordered_as(prev.before, prev.current_order, last.new_order)
    /\ (last.op # "none" /\ chain.declared = chain.o0) => self = chain.x0

C18_Witness ==
    /\ IsContainer(self)
    /\ prev.op = "order_fields_as" /\ prev.current_order # prev.new_order
    /\ last.op = "order_fields_as" /\ last.current_order # last.new_order
    /\ chain.declared = chain.o0
    /\ self = chain.x0
    /\ last.before # self
    /\ last.before = FullySwapped(chain.x0)

====
